---- MODULE Spec2Model ----
(***************************************************************************)
(* State-machine model of the StackIt Q&A application: the remote store    *)
(* created by the migration (tables questions and answers with their       *)
(* row-level security policies), the ask-question form, the question       *)
(* detail page backed by the remote store, and the earlier question detail *)
(* page that keeps its answers in component state.                         *)
(*                                                                         *)
(* Text is modelled as a sequence of one-character strings so that         *)
(* String.prototype.trim is computed, not assumed.                         *)
(***************************************************************************)
EXTENDS Integers, Sequences, FiniteSets, TLC

VARIABLES questions, answers, auth, form, home, page, local

vars == <<questions, answers, auth, form, home, page, local>>

----------------------------------------------------------------------------
(* Bounds of the model. *)

\* Number of registered users (auth.users rows); NULL stands for no user.
NUsers == 2
\* Number of browser sessions that have the detail page open.
NSessions == 2
\* Question rows the store may hold beyond the three seeded ones.
MaxNewQuestions == 1
\* Answer rows the store may hold.
MaxAnswers == 2
\* Answer rows the store may hold in the specification of votes.
MaxVoteAnswers == 1
\* Vote counts are kept within -MaxVotes .. MaxVotes by the guards.
MaxVotes == 1
\* Answers the detail page with component state may hold.
MaxLocalAnswers == 3
\* View count up to which the page's effect keeps writing.
MaxViews == 2
\* Accounts that may be created in the specification of sign-up.
MaxAccounts == 3
\* Tags the form may hold in the specification of the tag editor.
MaxTags == 6
\* Tags the form may hold in the specification of form submission.
MaxFormTags == 1

NULL == 0
Users == 1..NUsers
Sessions == 1..NSessions

----------------------------------------------------------------------------
(* Text helpers. *)

IsSpace(c) == c = " "

RECURSIVE trimStart(_)
trimStart(s) ==
    IF s = <<>> THEN <<>>
    ELSE IF IsSpace(Head(s)) THEN trimStart(Tail(s)) ELSE s

RECURSIVE trimEnd(_)
trimEnd(s) ==
    IF s = <<>> THEN <<>>
    ELSE IF IsSpace(s[Len(s)]) THEN trimEnd(SubSeq(s, 1, Len(s) - 1)) ELSE s

\* String.prototype.trim
trim(s) == trimEnd(trimStart(s))

\* Array.prototype.includes
includes(seq, x) == \E i \in 1..Len(seq) : seq[i] = x

\* Array.prototype.filter(e => e !== x)
RECURSIVE without(_, _)
without(seq, x) ==
    IF seq = <<>> THEN <<>>
    ELSE IF Head(seq) = x THEN without(Tail(seq), x)
         ELSE <<Head(seq)>> \o without(Tail(seq), x)

NoDuplicates(seq) == \A i, j \in 1..Len(seq) : seq[i] = seq[j] => i = j

\* A value that may be absent (undefined, null): the empty sequence or a
\* sequence of one element.
None == <<>>
Some(x) == <<x>>
IsSome(o) == o # <<>>
Get(o) == o[1]

----------------------------------------------------------------------------
(* The store after the migration. *)

\* Sample questions inserted by the migration: no owner, fixed counters.
SeedQuestions ==
    <<[user_id |-> NULL, votes |-> 5,  views |-> 24, has_accepted_answer |-> TRUE,
       deleted |-> FALSE],
      [user_id |-> NULL, votes |-> 8,  views |-> 45, has_accepted_answer |-> FALSE,
       deleted |-> FALSE],
      [user_id |-> NULL, votes |-> 12, views |-> 89, has_accepted_answer |-> TRUE,
       deleted |-> FALSE]>>

NSeed == Len(SeedQuestions)

\* Row of public.questions as inserted with the column defaults.
NewQuestionRow(u) ==
    [user_id |-> u, votes |-> 0, views |-> 0, has_accepted_answer |-> FALSE,
     deleted |-> FALSE]

\* Row of public.answers as inserted with the column defaults.
NewAnswerRow(q, u) ==
    [question_id |-> q, user_id |-> u, votes |-> 0, is_accepted |-> FALSE,
     deleted |-> FALSE]

\* Ids are positions in insertion order (created_at order); a deleted row
\* keeps its position and is marked.
QuestionIds == 1..Len(questions)
AnswerIds == 1..Len(answers)

\* Answers of question q, as ids.
AnswersOf(q) ==
    {a \in AnswerIds : answers[a].question_id = q /\ ~answers[a].deleted}

----------------------------------------------------------------------------
(* Ask-question form (AskQuestionPage). *)

suggestedTags ==
    << <<"R","e","a","c","t">>,
       <<"J","a","v","a","S","c","r","i","p","t">>,
       <<"T","y","p","e","S","c","r","i","p","t">>,
       <<"N","o","d","e",".","j","s">>,
       <<"C","S","S">>,
       <<"H","T","M","L">>,
       <<"S","Q","L">>,
       <<"P","y","t","h","o","n">> >>

\* Values typed into the title input and the description editor.
TextInputs == { <<>>, <<" ">>, <<"a">>, <<" ","a"," ">> }

\* Values typed into the tag input.
TagInputs == { <<>>, <<" ">>, <<" ","S","Q","L"," ">> }

\* Keys pressed in the tag input.
Keys == {"Enter", "a"}

PathAsk == [path |-> "/ask", id |-> NULL]
PathHome == [path |-> "/", id |-> NULL]
PathQuestion(q) == [path |-> "/question", id |-> q]

FormInit ==
    [title |-> <<>>, description |-> <<>>, tags |-> <<>>, currentTag |-> <<>>,
     toast |-> "", location |-> PathAsk]

FormMounted == form.location = PathAsk

setTitle(v) ==
    /\ FormMounted
    /\ form' = [form EXCEPT !.title = v]
    /\ UNCHANGED <<questions, answers, page, local, auth, home>>

setDescription(v) ==
    /\ FormMounted
    /\ form' = [form EXCEPT !.description = v]
    /\ UNCHANGED <<questions, answers, page, local, auth, home>>

setCurrentTag(v) ==
    /\ FormMounted
    /\ form' = [form EXCEPT !.currentTag = v]
    /\ UNCHANGED <<questions, answers, page, local, auth, home>>

\* The tag list after the Enter-key handler has run on (tags, currentTag).
\* A handler that appends the typed tag without looking for it in the list.
AddTagAlways(tags, currentTag) == Append(tags, trim(currentTag))

AddTagResult(tags, currentTag) ==
    IF ~includes(tags, trim(currentTag))
    THEN Append(tags, trim(currentTag))
    ELSE tags

handleAddTag(key) ==
    /\ FormMounted
    /\ IF key = "Enter" /\ trim(form.currentTag) # <<>>
       THEN form' = [form EXCEPT !.tags = AddTagResult(form.tags, form.currentTag),
                                 !.currentTag = <<>>]
       ELSE form' = form
    /\ UNCHANGED <<questions, answers, page, local, auth, home>>

removeTag(tagToRemove) ==
    /\ FormMounted
    /\ includes(form.tags, tagToRemove)
    /\ form' = [form EXCEPT !.tags = without(form.tags, tagToRemove)]
    /\ UNCHANGED <<questions, answers, page, local, auth, home>>

\* The tag list after a click on a suggested or popular tag badge.
ClickTagResult(tags, tag) ==
    IF ~includes(tags, tag) THEN Append(tags, tag) ELSE tags

\* "Suggested tags" badges: only the tags not yet chosen are rendered.
clickSuggestedTag(i) ==
    /\ FormMounted
    /\ ~includes(form.tags, suggestedTags[i])
    /\ form' = [form EXCEPT !.tags = ClickTagResult(form.tags, suggestedTags[i])]
    /\ UNCHANGED <<questions, answers, page, local, auth, home>>

\* "Popular Tags" badges: every suggested tag is rendered.
clickPopularTag(i) ==
    /\ FormMounted
    /\ form' = [form EXCEPT !.tags = ClickTagResult(form.tags, suggestedTags[i])]
    /\ UNCHANGED <<questions, answers, page, local, auth, home>>

\* The toast handleSubmit raises for the form contents, "Question posted!"
\* when nothing is rejected.
\* A validation that compares the raw values, without trimming them.
SubmitToastUntrimmed(f) ==
    IF f.title = <<>> THEN "Title required"
    ELSE IF f.description = <<>> THEN "Description required"
    ELSE IF Len(f.tags) = 0 THEN "Tags required"
    ELSE "Question posted!"

SubmitToast(f) ==
    IF trim(f.title) = <<>> THEN "Title required"
    ELSE IF trim(f.description) = <<>> THEN "Description required"
    ELSE IF Len(f.tags) = 0 THEN "Tags required"
    ELSE "Question posted!"

handleSubmit ==
    /\ FormMounted
    /\ form' = [form EXCEPT !.toast = SubmitToast(form),
                            !.location = IF SubmitToast(form) = "Question posted!"
                                         THEN PathHome ELSE @]
    /\ UNCHANGED <<questions, answers, page, local, auth, home>>

\* Back arrow and Cancel button.
navigateHome ==
    /\ FormMounted
    /\ form' = [form EXCEPT !.location = PathHome]
    /\ UNCHANGED <<questions, answers, page, local, auth, home>>

\* The navigation bar's "Ask Question" link mounts a fresh form.
mountAsk ==
    /\ ~FormMounted
    /\ form' = [FormInit EXCEPT !.toast = form.toast]
    /\ UNCHANGED <<questions, answers, page, local, auth, home>>

----------------------------------------------------------------------------
(* Row-level security policies of the migration. *)

\* "Authenticated users can create ..." WITH CHECK (auth.uid() = user_id)
MayInsert(uid, row) == uid # NULL /\ uid = row.user_id

\* "Users can update their own ..." USING (auth.uid() = user_id): a row the
\* policy hides is skipped by the UPDATE, which reports no error.
MayUpdate(uid, row) == ~row.deleted /\ uid # NULL /\ uid = row.user_id

\* An authenticated client inserts a question as itself.
insertQuestion(u) ==
    /\ Len(questions) < NSeed + MaxNewQuestions
    /\ MayInsert(u, NewQuestionRow(u))
    /\ questions' = Append(questions, NewQuestionRow(u))
    /\ UNCHANGED <<answers, form, page, local, auth, home>>

\* An authenticated client inserts an answer to question q as itself.
insertAnswer(u, q) ==
    /\ Len(answers) < MaxAnswers
    /\ MayInsert(u, NewAnswerRow(q, u))
    /\ answers' = Append(answers, NewAnswerRow(q, u))
    /\ UNCHANGED <<questions, form, page, local, auth, home>>

\* "Users can delete their own ..." USING (auth.uid() = user_id).
MayDelete(uid, row) == ~row.deleted /\ uid # NULL /\ uid = row.user_id

\* Requests a client sends to the store with the session uid (NULL without
\* a session); the policies decide. A request the policies refuse, or that
\* matches no row, changes nothing.
Requesters == Users \cup {NULL}

\* Values a client writes into a counter column.
CounterValues == {0, 1}

\* An insert into public.answers whose question reference is not checked.
requestInsertAnswerUnreferenced(uid, q, owner) ==
    /\ Len(answers) < MaxAnswers
    /\ MayInsert(uid, NewAnswerRow(q, owner))
    /\ answers' = Append(answers, NewAnswerRow(q, owner))
    /\ UNCHANGED <<questions, auth, form, page, local, home>>

\* INSERT INTO public.questions with user_id = owner.
requestInsertQuestion(uid, owner) ==
    /\ Len(questions) < NSeed + MaxNewQuestions
    /\ MayInsert(uid, NewQuestionRow(owner))
    /\ questions' = Append(questions, NewQuestionRow(owner))
    /\ UNCHANGED <<answers, auth, form, page, local, home>>

\* INSERT INTO public.answers with question_id = q and user_id = owner; the
\* foreign key refuses a question_id that no question row carries.
requestInsertAnswer(uid, q, owner) ==
    /\ Len(answers) < MaxAnswers
    /\ ~questions[q].deleted
    /\ MayInsert(uid, NewAnswerRow(q, owner))
    /\ answers' = Append(answers, NewAnswerRow(q, owner))
    /\ UNCHANGED <<questions, auth, form, page, local, home>>

\* UPDATE public.questions SET votes = v WHERE id = q.
requestUpdateQuestion(uid, q, v) ==
    /\ questions' = [r \in QuestionIds |->
                        IF r = q /\ MayUpdate(uid, questions[r])
                        THEN [questions[r] EXCEPT !.votes = v] ELSE questions[r]]
    /\ UNCHANGED <<answers, auth, form, page, local, home>>

\* UPDATE public.answers SET votes = v WHERE id = a.
requestUpdateAnswer(uid, a, v) ==
    /\ answers' = [b \in AnswerIds |->
                      IF b = a /\ MayUpdate(uid, answers[b])
                      THEN [answers[b] EXCEPT !.votes = v] ELSE answers[b]]
    /\ UNCHANGED <<questions, auth, form, page, local, home>>

\* DELETE FROM public.answers WHERE id = a.
requestDeleteAnswer(uid, a) ==
    /\ answers' = [b \in AnswerIds |->
                      IF b = a /\ MayDelete(uid, answers[b])
                      THEN [answers[b] EXCEPT !.deleted = TRUE] ELSE answers[b]]
    /\ UNCHANGED <<questions, auth, form, page, local, home>>

\* DELETE FROM public.questions WHERE id = q. The answers of a deleted
\* question go with it: question_id ... ON DELETE CASCADE is carried out by
\* the foreign key, which the policies of public.answers do not govern.
requestDeleteQuestion(uid, q) ==
    /\ questions' = [r \in QuestionIds |->
                        IF r = q /\ MayDelete(uid, questions[r])
                        THEN [questions[r] EXCEPT !.deleted = TRUE] ELSE questions[r]]
    /\ answers' = [b \in AnswerIds |->
                      IF answers[b].question_id = q /\ MayDelete(uid, questions[q])
                      THEN [answers[b] EXCEPT !.deleted = TRUE] ELSE answers[b]]
    /\ UNCHANGED <<auth, form, page, local, home>>

\* Some request of the session uid.
StoreRequest(uid) ==
    \/ \E owner \in Requesters : requestInsertQuestion(uid, owner)
    \/ \E q \in QuestionIds : \E owner \in Requesters : requestInsertAnswer(uid, q, owner)
    \/ \E q \in QuestionIds : \E v \in CounterValues : requestUpdateQuestion(uid, q, v)
    \/ \E a \in AnswerIds : \E v \in CounterValues : requestUpdateAnswer(uid, a, v)
    \/ \E a \in AnswerIds : requestDeleteAnswer(uid, a)
    \/ \E q \in QuestionIds : requestDeleteQuestion(uid, q)

----------------------------------------------------------------------------
(* Question list (HomePage). *)

\* created_at: the seed rows are inserted by one statement and share its
\* time; later rows are stamped in insertion order.
CreatedAt(q) == IF q <= NSeed THEN 0 ELSE q - NSeed

SortValues == {"newest", "oldest", "votes"}
FilterValues == {"all", "unanswered", "answered"}

HomeInit == [sortBy |-> "newest", filterBy |-> "all", questions |-> None]

\* query.eq('has_accepted_answer', ...): the value compared with, if any.
FilterEq(filterBy) ==
    IF filterBy = "unanswered" THEN Some(FALSE)
    ELSE IF filterBy = "answered" THEN Some(TRUE)
    ELSE None

\* An ordering that lists the newest first for "oldest" too.
SortOrderDescending(sortBy) ==
    IF sortBy = "votes" THEN [column |-> "votes", ascending |-> FALSE]
    ELSE [column |-> "created_at", ascending |-> FALSE]

\* query.order(column, {ascending}).
SortOrder(sortBy) ==
    IF sortBy = "newest" THEN [column |-> "created_at", ascending |-> FALSE]
    ELSE IF sortBy = "oldest" THEN [column |-> "created_at", ascending |-> TRUE]
    ELSE [column |-> "votes", ascending |-> FALSE]

\* The value of a column of question q.
Column(q, column) ==
    IF column = "created_at" THEN CreatedAt(q) ELSE questions[q].votes

\* The rows select('*') with the eq filter returns, as ids.
Selected(eq) ==
    {q \in QuestionIds :
        /\ ~questions[q].deleted
        /\ IsSome(eq) => questions[q].has_accepted_answer = Get(eq)}

\* Row r may come before row t under the ordering.
Before(r, t, order) ==
    IF order.ascending
    THEN Column(r, order.column) <= Column(t, order.column)
    ELSE Column(r, order.column) >= Column(t, order.column)

\* The orders in which ORDER BY may return the rows: a row that may come
\* before all others, then the rest; rows with equal keys come in any order.
RECURSIVE Ordered(_, _)
Ordered(rows, order) ==
    IF rows = {} THEN {<<>>}
    ELSE UNION {{<<r>> \o l : l \in Ordered(rows \ {r}, order)} :
                   r \in {t \in rows : \A u \in rows : Before(t, u, order)}}

setSortBy(v) ==
    /\ v # home.sortBy
    /\ home' = [home EXCEPT !.sortBy = v, !.questions = None]
    /\ UNCHANGED <<questions, answers, auth, form, page, local>>

setFilterBy(v) ==
    /\ v # home.filterBy
    /\ home' = [home EXCEPT !.filterBy = v, !.questions = None]
    /\ UNCHANGED <<questions, answers, auth, form, page, local>>

\* queryKey ['questions', sortBy, filterBy]: the query runs and returns.
fetchQuestions ==
    /\ \E l \in Ordered(Selected(FilterEq(home.filterBy)), SortOrder(home.sortBy)) :
          home' = [home EXCEPT !.questions = Some(l)]
    /\ UNCHANGED <<questions, answers, auth, form, page, local>>

----------------------------------------------------------------------------
(* Accounts (auth.users) and profiles (public.profiles). *)

AccountIds == 1..MaxAccounts

\* raw_user_meta_data->>'username': absent (NULL) or a name.
Usernames == {None, Some("ann"), Some("bob"), Some("cy")}

\* The accounts the sessions of the pages sign in with, each with the
\* profile the trigger gave it.
AuthInit ==
    [users |-> Users,
     profiles |-> {[id |-> u, username |-> None] : u \in Users},
     error |-> ""]

\* No account has been created yet.
AuthEmpty == [users |-> {}, profiles |-> {}, error |-> ""]

\* PRIMARY KEY (id) and UNIQUE (username) of public.profiles; NULL user
\* names do not collide.
ProfileFits(row, profiles) ==
    /\ \A p \in profiles : p.id # row.id
    /\ IsSome(row.username) => \A p \in profiles : p.username # row.username

\* A sign-up whose trigger failure does not undo the insert of the account.
createAccountKept(id, username) ==
    /\ id \notin auth.users
    /\ LET row == [id |-> id, username |-> username] IN
       auth' = IF ProfileFits(row, auth.profiles)
               THEN [auth EXCEPT !.users = @ \cup {id},
                                 !.profiles = @ \cup {row},
                                 !.error = ""]
               ELSE [auth EXCEPT !.users = @ \cup {id},
                                 !.error = "Database error saving new user"]
    /\ UNCHANGED <<questions, answers, form, page, local, home>>

\* INSERT ON auth.users with its AFTER INSERT trigger handle_new_user: the
\* trigger inserts the profile in the same statement, and its failure
\* aborts the insert of the account.
createAccount(id, username) ==
    /\ id \notin auth.users
    /\ LET row == [id |-> id, username |-> username] IN
       auth' = IF ProfileFits(row, auth.profiles)
               THEN [auth EXCEPT !.users = @ \cup {id},
                                 !.profiles = @ \cup {row},
                                 !.error = ""]
               ELSE [auth EXCEPT !.error = "Database error saving new user"]
    /\ UNCHANGED <<questions, answers, form, page, local, home>>

\* "Users can update their own profile" USING (auth.uid() = id): the change
\* of the user name of the session's own row, under UNIQUE (username). The
\* policy's check keeps the row's id equal to auth.uid().
updateProfile(uid, username) ==
    /\ uid \in auth.users
    /\ \E p \in auth.profiles :
          /\ p.id = uid
          /\ LET row == [id |-> uid, username |-> username] IN
             auth' = IF ProfileFits(row, auth.profiles \ {p})
                     THEN [auth EXCEPT !.profiles = (@ \ {p}) \cup {row},
                                       !.error = ""]
                     ELSE [auth EXCEPT !.error = "duplicate key value"]
    /\ UNCHANGED <<questions, answers, form, page, local, home>>

----------------------------------------------------------------------------
(* Question detail page backed by the store (QuestionDetailPage, useQuery). *)

\* Values typed into the answer editor.
AnswerInputs == { <<>>, <<" ">>, <<"a">> }

PageInit(u) ==
    [user |-> u, id |-> NULL, question |-> None, answers |-> None,
     questionStale |-> FALSE, answersStale |-> FALSE,
     newAnswer |-> <<>>, submitPending |-> FALSE, vote |-> None,
     lastVote |-> None, accept |-> None, views |-> {}, toast |-> ""]

Mounted(s) == page[s].id # NULL

\* No mutation of the page is in flight.
Idle(s) ==
    /\ ~page[s].submitPending
    /\ page[s].vote = None
    /\ page[s].accept = None

\* select('*').eq('question_id', q).order('created_at', {ascending: false})
RECURSIVE AnswerList(_, _)
AnswerList(q, n) ==
    IF n = 0 THEN <<>>
    ELSE IF answers[n].question_id = q /\ ~answers[n].deleted
         THEN <<[id |-> n, user_id |-> answers[n].user_id,
                 votes |-> answers[n].votes,
                 is_accepted |-> answers[n].is_accepted]>> \o AnswerList(q, n - 1)
         ELSE AnswerList(q, n - 1)

\* Both queries have returned once; until then the page renders a skeleton.
Loaded(s) == IsSome(page[s].question) /\ IsSome(page[s].answers)

\* Ids of the answers the page renders.
Rendered(s) ==
    IF Loaded(s)
    THEN {Get(page[s].answers)[i].id : i \in 1..Len(Get(page[s].answers))}
    ELSE {}

\* answers?.find(a => a.id === answerId)
Cached(s, a) ==
    LET list == Get(page[s].answers)
    IN  list[CHOOSE i \in 1..Len(list) : list[i].id = a]

\* Another page's update of the store disturbs the mutations in flight here.
Disturbed(p) ==
    [p EXCEPT !.accept = IF IsSome(@) THEN Some([Get(@) EXCEPT !.clean = FALSE]) ELSE @,
              !.lastVote = None]

\* The pages after session s has written to the store and set its own page to p.
AfterWrite(s, p) ==
    [t \in Sessions |-> IF t = s THEN p ELSE Disturbed(page[t])]

\* Questions whose detail page is opened: the last seeded one and the ones
\* created afterwards.
PageQuestions == {q \in QuestionIds : q >= NSeed /\ ~questions[q].deleted}

\* Route /question/:id
\* Opening another question's page; an update of views still in flight on
\* the page that is left is not followed further.
mount(s, q) ==
    /\ Idle(s)
    /\ page[s].id # q
    /\ page' = [page EXCEPT ![s] = [PageInit(page[s].user) EXCEPT !.id = q,
                                                                 !.toast = page[s].toast]]
    /\ UNCHANGED <<questions, answers, form, local, auth, home>>

\* queryKey ['question', id]: runs when the page mounts and after the key
\* has been invalidated. The effect on [question, id] runs when the query hands the page data
\* that differ from the data it had (equal data keep their identity): it
\* starts an update of views to the fetched count plus one.
fetchQuestion(s) ==
    /\ Mounted(s)
    /\ page[s].question = None \/ page[s].questionStale
    /\ LET row == questions[page[s].id] IN
       page' = [page EXCEPT ![s].question = Some(row),
                            ![s].questionStale = FALSE,
                            ![s].views = IF page[s].question = Some(row) THEN @
                                         ELSE @ \cup {row.views + 1}]
    /\ UNCHANGED <<questions, answers, form, local, auth, home>>

\* update({views}).eq('id', id) under the update policy.
ViewUpdate(uid, q, v) ==
    [r \in QuestionIds |->
        IF r = q /\ MayUpdate(uid, questions[r])
        THEN [questions[r] EXCEPT !.views = v] ELSE questions[r]]

\* The update of views returns: its error is not read, then() invalidates
\* the question query either way.
viewSettle(s, v, ok) ==
    /\ v \in page[s].views
    /\ MayUpdate(page[s].user, questions[page[s].id]) => v <= MaxViews
    /\ questions' = IF ok THEN ViewUpdate(page[s].user, page[s].id, v) ELSE questions
    /\ page' = [page EXCEPT ![s].views = @ \ {v},
                            ![s].questionStale = TRUE]
    /\ UNCHANGED <<answers, form, local, auth, home>>

\* queryKey ['answers', id]: runs when the page mounts and after the key
\* has been invalidated.
fetchAnswers(s) ==
    /\ Mounted(s)
    /\ page[s].answers = None \/ page[s].answersStale
    /\ page' = [page EXCEPT ![s].answers = Some(AnswerList(page[s].id, Len(answers))),
                            ![s].answersStale = FALSE]
    /\ UNCHANGED <<questions, answers, form, local, auth, home>>

setNewAnswer(s, v) ==
    /\ Loaded(s)
    /\ page' = [page EXCEPT ![s].newAnswer = v]
    /\ UNCHANGED <<questions, answers, form, local, auth, home>>

\* The toast handleSubmitAnswer raises itself, "" when it calls mutate.
SubmitAnswerToast(p) ==
    IF p.user = NULL THEN "Login required"
    ELSE IF trim(p.newAnswer) = <<>> THEN "Answer required"
    ELSE ""

\* A handler that empties the draft when it rejects the submission.
handleSubmitAnswerClears(s) ==
    /\ Loaded(s)
    /\ ~page[s].submitPending
    /\ IF SubmitAnswerToast(page[s]) # ""
       THEN page' = [page EXCEPT ![s].toast = SubmitAnswerToast(page[s]),
                                 ![s].newAnswer = <<>>]
       ELSE page' = [page EXCEPT ![s].submitPending = TRUE]
    /\ UNCHANGED <<questions, answers, form, local, auth, home>>

\* The handler checks the user itself: the session may end under an open form.
handleSubmitAnswer(s) ==
    /\ Loaded(s)
    /\ ~page[s].submitPending
    /\ IF SubmitAnswerToast(page[s]) # ""
       THEN page' = [page EXCEPT ![s].toast = SubmitAnswerToast(page[s])]
       ELSE page' = [page EXCEPT ![s].submitPending = TRUE]
    /\ UNCHANGED <<questions, answers, form, local, auth, home>>

\* A submission whose insert is sent twice.
submitAnswerSettleTwice(s, ok) ==
    /\ page[s].submitPending
    /\ IF ok
       THEN /\ Len(answers) + 1 < MaxAnswers
            /\ MayInsert(page[s].user, NewAnswerRow(page[s].id, page[s].user))
            /\ answers' = Append(Append(answers, NewAnswerRow(page[s].id, page[s].user)),
                                 NewAnswerRow(page[s].id, page[s].user))
            /\ page' = [page EXCEPT ![s].submitPending = FALSE,
                                    ![s].newAnswer = <<>>,
                                    ![s].answersStale = TRUE,
                                    ![s].toast = "Answer posted!"]
       ELSE /\ answers' = answers
            /\ page' = [page EXCEPT ![s].submitPending = FALSE,
                                    ![s].toast = "Error posting answer"]
    /\ UNCHANGED <<questions, form, local, auth, home>>

\* submitAnswerMutation: the insert returns, then onSuccess or onError runs.
submitAnswerSettle(s, ok) ==
    /\ page[s].submitPending
    /\ IF ok
       THEN /\ Len(answers) < MaxAnswers
            /\ MayInsert(page[s].user, NewAnswerRow(page[s].id, page[s].user))
            /\ answers' = Append(answers, NewAnswerRow(page[s].id, page[s].user))
            /\ page' = [page EXCEPT ![s].submitPending = FALSE,
                                    ![s].newAnswer = <<>>,
                                    ![s].answersStale = TRUE,
                                    ![s].toast = "Answer posted!"]
       ELSE /\ answers' = answers
            /\ page' = [page EXCEPT ![s].submitPending = FALSE,
                                    ![s].toast = "Error posting answer"]
    /\ UNCHANGED <<questions, form, local, auth, home>>

Increment(isUpvote) == IF isUpvote THEN 1 ELSE -1

\* (answer.votes || 0) + increment, from the cached answers.
VoteValue(s, a, increment) == Cached(s, a).votes + increment

handleVote(s, a, isUpvote) ==
    /\ Mounted(s)
    /\ a \in Rendered(s)
    /\ page[s].vote = None
    /\ IF page[s].user = NULL
       THEN page' = [page EXCEPT ![s].toast = "Login required"]
       ELSE /\ VoteValue(s, a, Increment(isUpvote)) \in -MaxVotes..MaxVotes
            /\ page' = [page EXCEPT ![s].vote =
                          Some([answerId |-> a,
                                increment |-> Increment(isUpvote),
                                read |-> Cached(s, a).votes])]
    /\ UNCHANGED <<questions, answers, form, local, auth, home>>

\* update({votes}).eq('id', answerId) under the update policy.
VoteUpdate(uid, a, v) ==
    [b \in AnswerIds |->
        IF b = a /\ MayUpdate(uid, answers[b])
        THEN [answers[b] EXCEPT !.votes = v] ELSE answers[b]]

\* The record of a vote that was written: what the page asked for and the
\* stored count the write found.
Voted(v) ==
    [answerId |-> v.answerId, increment |-> v.increment, read |-> v.read,
     before |-> answers[v.answerId].votes]

\* voteAnswerMutation: the update returns, then onSuccess or onError runs.
voteSettle(s, ok) ==
    /\ IsSome(page[s].vote)
    /\ LET v == Get(page[s].vote) IN
       IF ok
       THEN /\ answers' = VoteUpdate(page[s].user, v.answerId, v.read + v.increment)
            /\ page' = AfterWrite(s, [page[s] EXCEPT !.vote = None,
                                                     !.lastVote = Some(Voted(v)),
                                                     !.answersStale = TRUE,
                                                     !.toast = "Vote recorded"])
       ELSE /\ answers' = answers
            /\ page' = [page EXCEPT ![s].vote = None,
                                    ![s].toast = "Error voting"]
    /\ UNCHANGED <<questions, form, local, auth, home>>

\* Ids of the answers of question q that are accepted in the store.
Accepted(q) == {a \in AnswersOf(q) : answers[a].is_accepted}

\* The toast the accept handler or mutationFn raises before any write, ""
\* when the writes start.
AcceptToast(p) ==
    IF p.user = NULL THEN "Login required"
    ELSE IF p.question = None THEN "Error accepting answer"
    ELSE IF Get(p.question).user_id # p.user THEN "Error accepting answer"
    ELSE ""

handleAcceptAnswer(s, a) ==
    /\ Mounted(s)
    /\ a \in Rendered(s)
    /\ page[s].accept = None
    /\ IF AcceptToast(page[s]) # ""
       THEN page' = [page EXCEPT ![s].toast = AcceptToast(page[s])]
       ELSE page' = [page EXCEPT ![s].accept =
                       Some([step |-> "clear", answerId |-> a, clean |-> TRUE,
                             failed |-> FALSE,
                             prior |-> Accepted(page[s].id) \ {a}])]
    /\ UNCHANGED <<questions, answers, form, local, auth, home>>

\* update({is_accepted: false}).eq('question_id', id) under the update policy.
ClearUpdate(uid, q) ==
    [b \in AnswerIds |->
        IF answers[b].question_id = q /\ MayUpdate(uid, answers[b])
        THEN [answers[b] EXCEPT !.is_accepted = FALSE] ELSE answers[b]]

\* update({is_accepted: true}).eq('id', answerId) under the update policy.
SetUpdate(uid, a) ==
    [b \in AnswerIds |->
        IF b = a /\ MayUpdate(uid, answers[b])
        THEN [answers[b] EXCEPT !.is_accepted = TRUE] ELSE answers[b]]

\* update({has_accepted_answer: true}).eq('id', id) under the update policy.
FlagUpdate(uid, q) ==
    [r \in QuestionIds |->
        IF r = q /\ MayUpdate(uid, questions[r])
        THEN [questions[r] EXCEPT !.has_accepted_answer = TRUE] ELSE questions[r]]

AtStep(s, step) == IsSome(page[s].accept) /\ Get(page[s].accept).step = step

\* The accept record after a write that returned ok or an error.
Advance(acc, step, ok) ==
    [acc EXCEPT !.step = step, !.clean = acc.clean /\ ok,
                !.failed = acc.failed \/ ~ok]

\* A first write that takes the question's flag back together with the
\* answers' marks.
acceptClearResetsFlag(s, ok) ==
    /\ AtStep(s, "clear")
    /\ answers' = IF ok THEN ClearUpdate(page[s].user, page[s].id) ELSE answers
    /\ questions' = IF ok
                    THEN [r \in QuestionIds |->
                            IF r = page[s].id /\ MayUpdate(page[s].user, questions[r])
                            THEN [questions[r] EXCEPT !.has_accepted_answer = FALSE]
                            ELSE questions[r]]
                    ELSE questions
    /\ LET p == [page[s] EXCEPT !.accept = Some(Advance(Get(@), "set", ok))]
       IN  page' = IF ok THEN AfterWrite(s, p) ELSE [page EXCEPT ![s] = p]
    /\ UNCHANGED <<form, local, auth, home>>

\* First write: its result is awaited and its error is not read.
acceptClear(s, ok) ==
    /\ AtStep(s, "clear")
    /\ answers' = IF ok THEN ClearUpdate(page[s].user, page[s].id) ELSE answers
    /\ LET p == [page[s] EXCEPT !.accept = Some(Advance(Get(@), "set", ok))]
       IN  page' = IF ok THEN AfterWrite(s, p) ELSE [page EXCEPT ![s] = p]
    /\ UNCHANGED <<questions, form, local, auth, home>>

\* A second write whose error is not read, like the errors of the other two.
acceptSetUnchecked(s, ok) ==
    /\ AtStep(s, "set")
    /\ answers' = IF ok THEN SetUpdate(page[s].user, Get(page[s].accept).answerId)
                  ELSE answers
    /\ LET p == [page[s] EXCEPT !.accept = Some(Advance(Get(@), "flag", ok))]
       IN  page' = IF ok THEN AfterWrite(s, p) ELSE [page EXCEPT ![s] = p]
    /\ UNCHANGED <<questions, form, local, auth, home>>

\* Second write: its error is thrown and ends the mutation in onError.
acceptSet(s, ok) ==
    /\ AtStep(s, "set")
    /\ IF ok
       THEN /\ answers' = SetUpdate(page[s].user, Get(page[s].accept).answerId)
            /\ page' = AfterWrite(s, [page[s] EXCEPT
                           !.accept = Some(Advance(Get(@), "flag", TRUE))])
       ELSE /\ answers' = answers
            /\ page' = [page EXCEPT ![s].accept = None,
                                    ![s].toast = "Error accepting answer"]
    /\ UNCHANGED <<questions, form, local, auth, home>>

\* A third write that does not wait for the second write to return.
acceptFlagEarly(s, ok) ==
    /\ AtStep(s, "set") \/ AtStep(s, "flag")
    /\ questions' = IF ok THEN FlagUpdate(page[s].user, page[s].id) ELSE questions
    /\ LET p == [page[s] EXCEPT !.accept = None, !.answersStale = TRUE,
                                !.questionStale = TRUE,
                                !.toast = "Answer accepted"]
       IN  page' = IF ok THEN AfterWrite(s, p) ELSE [page EXCEPT ![s] = p]
    /\ UNCHANGED <<answers, form, local, auth, home>>

\* Third write: its error is not read; onSuccess runs either way.
acceptFlag(s, ok) ==
    /\ AtStep(s, "flag")
    /\ questions' = IF ok THEN FlagUpdate(page[s].user, page[s].id) ELSE questions
    /\ LET p == [page[s] EXCEPT !.accept = None, !.answersStale = TRUE,
                                !.questionStale = TRUE,
                                !.toast = "Answer accepted"]
       IN  page' = IF ok THEN AfterWrite(s, p) ELSE [page EXCEPT ![s] = p]
    /\ UNCHANGED <<answers, form, local, auth, home>>

----------------------------------------------------------------------------
(* Question detail page that keeps its answers in component state          *)
(* (QuestionDetailPage, useState).                                         *)

\* useState<Answer[]>([...]): the two mock answers.
LocalAnswers ==
    <<[id |-> 1, votes |-> 5, isAccepted |-> TRUE,  userVote |-> "null"],
      [id |-> 2, votes |-> 2, isAccepted |-> FALSE, userVote |-> "null"]>>

LocalInit == [answers |-> LocalAnswers, newAnswer |-> <<>>, toast |-> ""]

VoteTypes == {"up", "down"}

\* The count an answer of the list starts with: the mock answers' counts,
\* 0 for an answer posted on the page.
InitialVotes(id) ==
    IF id \in 1..Len(LocalAnswers) THEN LocalAnswers[id].votes ELSE 0

\* A click that adds the new vote without removing the previous one.
VoteResultStacked(answer, voteType) ==
    [answer EXCEPT !.votes = IF answer.userVote = voteType THEN answer.votes
                             ELSE IF voteType = "up" THEN answer.votes + 1
                             ELSE answer.votes - 1,
                   !.userVote = IF answer.userVote = voteType THEN "null"
                                ELSE voteType]

\* The answer after a click on one of its vote arrows.
VoteResult(answer, voteType) ==
    LET removed == IF answer.userVote = "up" THEN answer.votes - 1
                   ELSE IF answer.userVote = "down" THEN answer.votes + 1
                   ELSE answer.votes
        applied == IF answer.userVote = voteType THEN removed
                   ELSE IF voteType = "up" THEN removed + 1 ELSE removed - 1
    IN  [answer EXCEPT !.votes = applied,
                       !.userVote = IF answer.userVote = voteType THEN "null"
                                    ELSE voteType]

handleVoteLocal(answerId, voteType) ==
    /\ local' = [local EXCEPT
          !.answers = [i \in 1..Len(local.answers) |->
                          IF local.answers[i].id = answerId
                          THEN VoteResult(local.answers[i], voteType)
                          ELSE local.answers[i]],
          !.toast = "Vote recorded"]
    /\ UNCHANGED <<questions, answers, form, page, auth, home>>

handleAcceptAnswerLocal(answerId) ==
    /\ local' = [local EXCEPT
          !.answers = [i \in 1..Len(local.answers) |->
                          [local.answers[i] EXCEPT !.isAccepted =
                              IF local.answers[i].id = answerId
                              THEN ~local.answers[i].isAccepted
                              ELSE FALSE]],
          !.toast = "Answer accepted"]
    /\ UNCHANGED <<questions, answers, form, page, auth, home>>

setNewAnswerLocal(v) ==
    /\ local' = [local EXCEPT !.newAnswer = v]
    /\ UNCHANGED <<questions, answers, form, page, auth, home>>

\* Date.now(): later than the id of every answer in the list.
FreshLocalId == Len(local.answers) + 1

handleSubmitAnswerLocal ==
    /\ IF trim(local.newAnswer) = <<>>
       THEN local' = [local EXCEPT !.toast = "Answer required"]
       ELSE /\ Len(local.answers) < MaxLocalAnswers
            /\ local' = [local EXCEPT
                  !.answers = Append(@, [id |-> FreshLocalId, votes |-> 0,
                                         isAccepted |-> FALSE,
                                         userVote |-> "null"]),
                  !.newAnswer = <<>>,
                  !.toast = "Answer posted!"]
    /\ UNCHANGED <<questions, answers, form, page, auth, home>>

----------------------------------------------------------------------------
(* Specifications. *)

InitForm ==
    /\ questions = SeedQuestions
    /\ answers = <<>>
    /\ auth = AuthInit
    /\ form = FormInit
    /\ home = HomeInit
    /\ page = [s \in Sessions |-> PageInit(NULL)]
    /\ local = LocalInit

NextTags ==
    \/ \E v \in TagInputs : setCurrentTag(v)
    \/ \E k \in Keys : handleAddTag(k) /\ Len(form'.tags) <= MaxTags
    \/ \E i \in 1..Len(form.tags) : removeTag(form.tags[i])
    \/ \E i \in 1..Len(suggestedTags) : clickSuggestedTag(i) /\ Len(form'.tags) <= MaxTags
    \/ \E i \in 1..Len(suggestedTags) : clickPopularTag(i) /\ Len(form'.tags) <= MaxTags

\* The tag editor of the ask-question form.
SpecTags == InitForm /\ [][NextTags]_vars

NextAsk ==
    \/ \E v \in TextInputs : setTitle(v)
    \/ \E v \in TextInputs : setDescription(v)
    \/ \E v \in TagInputs : setCurrentTag(v)
    \/ \E k \in Keys : handleAddTag(k) /\ Len(form'.tags) <= MaxFormTags
    \/ \E i \in 1..Len(form.tags) : removeTag(form.tags[i])
    \/ \E i \in 1..Len(suggestedTags) : clickSuggestedTag(i) /\ Len(form'.tags) <= MaxFormTags
    \/ \E i \in 1..Len(suggestedTags) : clickPopularTag(i) /\ Len(form'.tags) <= MaxFormTags
    \/ handleSubmit
    \/ navigateHome
    \/ mountAsk

\* The whole ask-question form, with at most MaxFormTags tags.
SpecAsk == InitForm /\ [][NextAsk]_vars

\* The visitor whose detail page the specifications of one page follow; the
\* other users reach the store through the insert policies.
Visitor == CHOOSE s \in Sessions : \A t \in Sessions : s <= t

\* The store as the migration leaves it, with no page opened yet: the
\* visitor is signed in as some user or as nobody, nobody else is signed in.
Init ==
    /\ questions = SeedQuestions
    /\ answers = <<>>
    /\ auth = AuthInit
    /\ form = FormInit
    /\ home = HomeInit
    /\ \E u \in Users \cup {NULL} :
          page = [s \in Sessions |-> PageInit(IF s = Visitor THEN u ELSE NULL)]
    /\ local = LocalInit

Next ==
    \/ \E u \in Users : insertQuestion(u)
    \/ \E u \in Users : \E q \in PageQuestions : insertAnswer(u, q)
    \/ \E q \in PageQuestions : mount(Visitor, q)
    \/ fetchQuestion(Visitor)
    \/ fetchAnswers(Visitor)
    \/ \E a \in AnswerIds : handleAcceptAnswer(Visitor, a)
    \/ \E ok \in BOOLEAN : acceptClear(Visitor, ok)
    \/ \E ok \in BOOLEAN : acceptSet(Visitor, ok)
    \/ \E ok \in BOOLEAN : acceptFlag(Visitor, ok)
    \/ \E v \in page[Visitor].views : \E ok \in BOOLEAN : viewSettle(Visitor, v, ok)

\* The store and one detail page: questions, answers and acceptance, with
\* remote failures.
Spec == Init /\ [][Next]_vars

FirstUser == CHOOSE u \in Users : \A v \in Users : u <= v

\* Every session is signed in as the same user.
InitRace ==
    /\ questions = SeedQuestions
    /\ answers = <<>>
    /\ auth = AuthInit
    /\ form = FormInit
    /\ home = HomeInit
    /\ page = [s \in Sessions |-> PageInit(FirstUser)]
    /\ local = LocalInit

NextRace ==
    \/ \E u \in Users : insertQuestion(u)
    \/ \E u \in Users : \E q \in PageQuestions : insertAnswer(u, q)
    \/ \E s \in Sessions : \E q \in PageQuestions : mount(s, q)
    \/ \E s \in Sessions : fetchQuestion(s)
    \/ \E s \in Sessions : fetchAnswers(s)
    \/ \E s \in Sessions : \E a \in AnswerIds : handleAcceptAnswer(s, a)
    \/ \E s \in Sessions : acceptClear(s, TRUE)
    \/ \E s \in Sessions : acceptSet(s, TRUE)
    \/ \E s \in Sessions : acceptFlag(s, TRUE)

\* The store and the detail pages of several sessions of one user, whose
\* accept operations interleave; no remote write fails.
SpecRace == InitRace /\ [][NextRace]_vars

\* Who is signed in where: users are interchangeable, so the visitor is
\* signed in as the first user and every other session as any user or as
\* nobody.
InitVote ==
    /\ questions = SeedQuestions
    /\ answers = <<>>
    /\ auth = AuthInit
    /\ form = FormInit
    /\ home = HomeInit
    /\ \E f \in [Sessions -> Users \cup {NULL}] :
          /\ f[Visitor] = FirstUser
          /\ page = [s \in Sessions |-> PageInit(f[s])]
    /\ local = LocalInit

NextVote ==
    \/ \E u \in Users : \E q \in PageQuestions :
          Len(answers) < MaxVoteAnswers /\ insertAnswer(u, q)
    \/ \E s \in Sessions : \E q \in PageQuestions : mount(s, q)
    \/ \E s \in Sessions : fetchQuestion(s)
    \/ \E s \in Sessions : fetchAnswers(s)
    \/ \E s \in Sessions : \E a \in AnswerIds : \E up \in BOOLEAN : handleVote(s, a, up)
    \/ \E s \in Sessions : \E ok \in BOOLEAN : voteSettle(s, ok)

\* The store and the detail pages of several sessions: answers and votes.
SpecVote == InitVote /\ [][NextVote]_vars

NextView ==
    \/ \E u \in Users : insertQuestion(u)
    \/ \E s \in Sessions : \E q \in PageQuestions : mount(s, q)
    \/ \E s \in Sessions : fetchQuestion(s)
    \/ \E s \in Sessions : \E v \in page[s].views : viewSettle(s, v, TRUE)

\* The store and the detail pages of several sessions: the view count, with
\* no remote failure.
SpecView == InitVote /\ [][NextView]_vars

NextViewOnce ==
    \/ \E u \in Users : insertQuestion(u)
    \/ \E s \in Sessions : \E q \in PageQuestions : page[s].id = NULL /\ mount(s, q)
    \/ \E s \in Sessions : fetchQuestion(s)
    \/ \E s \in Sessions : \E v \in page[s].views : \E ok \in BOOLEAN :
          viewSettle(s, v, ok)

\* Each session opens one detail page and leaves it open: a query that is
\* due runs, and an update of views that was sent returns.
SpecViewOnce ==
    /\ InitVote
    /\ [][NextViewOnce]_vars
    /\ \A s \in Sessions :
          /\ WF_vars(fetchQuestion(s))
          /\ WF_vars(\E v \in page[s].views : \E ok \in BOOLEAN : viewSettle(s, v, ok))

InitAuth ==
    /\ questions = SeedQuestions
    /\ answers = <<>>
    /\ auth = AuthEmpty
    /\ form = FormInit
    /\ home = HomeInit
    /\ page = [s \in Sessions |-> PageInit(NULL)]
    /\ local = LocalInit

NextAuth ==
    \/ \E id \in AccountIds : \E n \in Usernames : createAccount(id, n)
    \/ \E id \in AccountIds : \E n \in Usernames : updateProfile(id, n)

\* Sign-up and profiles, from a database without accounts.
SpecAuth == InitAuth /\ [][NextAuth]_vars

NextStore ==
    \/ \E uid, owner \in Requesters : requestInsertQuestion(uid, owner)
    \/ \E uid, owner \in Requesters : \E q \in QuestionIds :
          requestInsertAnswer(uid, q, owner)
    \/ \E uid \in Requesters : \E q \in QuestionIds : \E v \in CounterValues :
          requestUpdateQuestion(uid, q, v)
    \/ \E uid \in Requesters : \E a \in AnswerIds : \E v \in CounterValues :
          requestUpdateAnswer(uid, a, v)
    \/ \E uid \in Requesters : \E a \in AnswerIds : requestDeleteAnswer(uid, a)
    \/ \E uid \in Requesters : \E q \in QuestionIds : requestDeleteQuestion(uid, q)

\* The tables under the row-level security policies, with clients that send
\* any insert, update or delete.
SpecStore == InitForm /\ [][NextStore]_vars

NextHome ==
    \/ \E uid \in Users : requestInsertQuestion(uid, uid)
    \/ \E q \in QuestionIds : \E v \in CounterValues :
          requestUpdateQuestion(questions[q].user_id, q, v)
    \/ \E q \in QuestionIds : requestDeleteQuestion(questions[q].user_id, q)
    \/ \E v \in SortValues : setSortBy(v)
    \/ \E v \in FilterValues : setFilterBy(v)
    \/ fetchQuestions

\* The question list over a store whose questions are inserted, voted on
\* and deleted by their owners.
SpecHome == InitForm /\ [][NextHome]_vars

\* {answers?.length || 0} in the heading and in Question Stats.
AnswerCountShown(s) ==
    IF IsSome(page[s].answers) THEN Len(Get(page[s].answers)) ELSE 0

\* answers && answers.length > 0 ? (the answers) : (the message)
AnswersMessage(s) ==
    IF IsSome(page[s].answers) /\ Len(Get(page[s].answers)) > 0
    THEN ""
    ELSE "No answers yet. Be the first to answer!"

\* The answers figure of a question card of the list.
ListedAnswerCount(q) == 0

NextListing ==
    \/ \E u \in Users : \E q \in PageQuestions : insertAnswer(u, q)
    \/ \E v \in SortValues : setSortBy(v)
    \/ \E v \in FilterValues : setFilterBy(v)
    \/ fetchQuestions
    \/ \E q \in PageQuestions : mount(Visitor, q)
    \/ fetchQuestion(Visitor)
    \/ fetchAnswers(Visitor)

\* The question list and a detail page over a store that gains answers.
SpecListing == InitForm /\ [][NextListing]_vars

NextPage ==
    \/ \E u \in Users : insertQuestion(u)
    \/ \E q \in PageQuestions : mount(Visitor, q)
    \/ fetchQuestion(Visitor)
    \/ fetchAnswers(Visitor)
    \/ \E v \in AnswerInputs : setNewAnswer(Visitor, v)
    \/ handleSubmitAnswer(Visitor)
    \/ \E ok \in BOOLEAN : submitAnswerSettle(Visitor, ok)
    \/ \E a \in AnswerIds : handleAcceptAnswer(Visitor, a)
    \/ \E ok \in BOOLEAN : acceptClear(Visitor, ok)
    \/ \E ok \in BOOLEAN : acceptSet(Visitor, ok)
    \/ \E ok \in BOOLEAN : acceptFlag(Visitor, ok)

\* One visitor's detail page submitting and accepting answers, every write
\* failing or succeeding; no other session writes answers.
SpecPage == Init /\ [][NextPage]_vars

NextSubmit ==
    \/ \E q \in PageQuestions : mount(Visitor, q)
    \/ fetchQuestion(Visitor)
    \/ fetchAnswers(Visitor)
    \/ \E v \in AnswerInputs : setNewAnswer(Visitor, v)
    \/ handleSubmitAnswer(Visitor)
    \/ \E ok \in BOOLEAN : submitAnswerSettle(Visitor, ok)

\* The store and one visitor's detail page: posting answers.
SpecSubmit == Init /\ [][NextSubmit]_vars

NextLocal ==
    \/ \E i \in 1..Len(local.answers) : \E t \in VoteTypes :
          handleVoteLocal(local.answers[i].id, t)
    \/ \E i \in 1..Len(local.answers) :
          handleAcceptAnswerLocal(local.answers[i].id)
    \/ \E v \in AnswerInputs : setNewAnswerLocal(v)
    \/ handleSubmitAnswerLocal

\* The detail page that keeps its answers in component state.
SpecLocal == InitForm /\ [][NextLocal]_vars

----------------------------------------------------------------------------
(* Properties. *)

\* The number of tags the form announces ("Add up to 5 tags").
TagLimit == 5

\* C1: when the owner of a question accepts answer B while another answer A
\* is the accepted one, and the three writes return without error and no
\* other session writes meanwhile, then afterwards B is the only accepted
\* answer of the question and the question's accepted flag is true, whoever
\* wrote A and B.
C1_AcceptReplacesAccepted ==
    [][\A s \in Sessions :
         (/\ AtStep(s, "flag")
          /\ Get(page[s].accept).clean
          /\ Get(page[s].accept).prior # {}
          /\ acceptFlag(s, TRUE))
         => /\ \A a \in AnswersOf(page[s].id) :
                  answers'[a].is_accepted <=> (a = Get(page[s].accept).answerId)
            /\ questions'[page[s].id].has_accepted_answer]_vars

\* C2: a question never has more than one accepted answer, however the
\* accept operations of its owner's sessions interleave.
C2_AtMostOneAccepted ==
    \A q \in QuestionIds : Cardinality(Accepted(q)) <= 1

\* C3: starting from the migrated database with its seed rows, a question's
\* accepted flag is true exactly when the question has one accepted answer.
C3_FlagIffOneAccepted ==
    \A q \in QuestionIds :
        questions[q].has_accepted_answer <=> (Cardinality(Accepted(q)) = 1)

\* C4: an up-vote followed by a down-vote on the same answer from the same
\* page, with no other session writing, leaves the stored count at its value
\* before the two votes, also when the down-vote is issued before the
\* answers were fetched again.
C4_UpThenDownRestores ==
    [][\A s \in Sessions :
         (/\ IsSome(page[s].vote)
          /\ IsSome(page[s].lastVote)
          /\ Get(page[s].lastVote).answerId = Get(page[s].vote).answerId
          /\ Get(page[s].lastVote).increment = 1
          /\ Get(page[s].vote).increment = -1
          /\ voteSettle(s, TRUE))
         => answers'[Get(page[s].vote).answerId].votes
               = Get(page[s].lastVote).before]_vars

\* C5: when two sessions have both read the count v of an answer and each
\* writes an up-vote, the stored count ends at v + 1.
C5_ConcurrentUpVotesCountOnce ==
    [][\A s, t \in Sessions :
         (/\ s # t
          /\ IsSome(page[s].vote)
          /\ IsSome(page[t].lastVote)
          /\ Get(page[t].lastVote).answerId = Get(page[s].vote).answerId
          /\ Get(page[t].lastVote).increment = 1
          /\ Get(page[s].vote).increment = 1
          /\ Get(page[t].lastVote).read = Get(page[s].vote).read
          /\ voteSettle(s, TRUE))
         => answers'[Get(page[s].vote).answerId].votes
               = Get(page[s].vote).read + 1]_vars

\* C6: submitting the answer form without a signed-in user shows "Login
\* required", starts no insert and leaves the answers unchanged, on the page
\* backed by the store and on the page that keeps its answers in component
\* state (which has no signed-in user at all).
C6_AnonymousAnswerRejected ==
    [][/\ \A s \in Sessions :
            (page[s].user = NULL /\ handleSubmitAnswer(s))
            => /\ page'[s].toast = "Login required"
               /\ ~page'[s].submitPending
               /\ answers' = answers
       /\ handleSubmitAnswerLocal
            => /\ local'.toast = "Login required"
               /\ local'.answers = local.answers]_vars

\* C7: submitting the ask form with a title or a description that is empty
\* or only whitespace shows the notification of that field, creates no
\* question, does not navigate and leaves the form's fields as they were.
C7_BlankFieldRejected ==
    [][(/\ handleSubmit
        /\ (trim(form.title) = <<>> \/ trim(form.description) = <<>>))
       => /\ form'.toast = IF trim(form.title) = <<>> THEN "Title required"
                           ELSE "Description required"
          /\ questions' = questions
          /\ form'.location = form.location
          /\ form'.title = form.title
          /\ form'.description = form.description
          /\ form'.tags = form.tags
          /\ form'.currentTag = form.currentTag]_vars

\* A whitespace-only description was submitted under a filled title and the
\* form is still open on it.
C7_Witness ==
    /\ FormMounted
    /\ form.toast = "Description required"
    /\ form.description = <<" ">>
    /\ trim(form.title) # <<>>

\* C8: submitting the ask form with a non-blank title and a non-blank
\* description creates exactly one question row and navigates to the detail
\* page of that question.
C8_ValidSubmitCreatesQuestion ==
    [][(/\ handleSubmit
        /\ trim(form.title) # <<>>
        /\ trim(form.description) # <<>>)
       => /\ Len(questions') = Len(questions) + 1
          /\ form'.location = PathQuestion(Len(questions'))]_vars

\* C9: the tag list of the ask form never holds the same tag twice.
C9_NoDuplicateTags == NoDuplicates(form.tags)

\* The list holds the typed tag and a chosen one, and the typed tag is in the
\* input again, padded with spaces.
C9_Witness ==
    /\ Len(form.tags) >= 2
    /\ includes(form.tags, <<"S","Q","L">>)
    /\ form.currentTag # trim(form.currentTag)
    /\ includes(form.tags, trim(form.currentTag))

\* C10: the tag list of the ask form never holds more than five tags.
C10_AtMostFiveTags == Len(form.tags) <= TagLimit

\* C11: tags are not required: submitting the ask form with a non-blank
\* title, a non-blank description and no tag is accepted, not rejected by the
\* form's validation.
C11_TagsNotRequired ==
    [][(/\ handleSubmit
        /\ trim(form.title) # <<>>
        /\ trim(form.description) # <<>>
        /\ form.tags = <<>>)
       => /\ form'.toast # "Tags required"
          /\ form'.toast = "Question posted!"]_vars

\* C12: the accepted flag of an answer and the accepted flag of a question
\* change only through an accept operation requested by the user who owns
\* the question; an accept requested by another user or without a session
\* issues no write. The page that keeps its answers in component state has
\* no session, so there no accepted flag may change at all.
C12_OnlyOwnerAccepts ==
    [][/\ \A a \in AnswerIds :
            answers'[a].is_accepted # answers[a].is_accepted
            => \E s \in Sessions :
                  /\ IsSome(page[s].accept)
                  /\ page[s].id = answers[a].question_id
                  /\ page[s].user # NULL
                  /\ page[s].user = questions[page[s].id].user_id
       /\ \A q \in QuestionIds :
            questions'[q].has_accepted_answer # questions[q].has_accepted_answer
            => \E s \in Sessions :
                  /\ IsSome(page[s].accept)
                  /\ page[s].id = q
                  /\ page[s].user # NULL
                  /\ page[s].user = questions[q].user_id
       /\ \A s \in Sessions : \A a \in AnswerIds :
            (/\ handleAcceptAnswer(s, a)
             /\ page[s].user = NULL \/ page[s].user # questions[page[s].id].user_id)
            => page'[s].accept = None
       /\ \A i \in 1..Len(local.answers) :
            local'.answers[i].isAccepted = local.answers[i].isAccepted]_vars

\* C13: when the write that sets the chosen answer accepted fails after the
\* write that cleared the question's answers succeeded, the operation stops:
\* the question's flag is not written, nothing restores the earlier
\* acceptance, and the question is left with no accepted answer.
C13_FailedSetLeavesNoneAccepted ==
    [][\A s \in Sessions :
         (/\ AtStep(s, "set")
          /\ Get(page[s].accept).clean
          /\ acceptSet(s, FALSE))
         => /\ page'[s].accept = None
            /\ questions' = questions
            /\ answers' = answers
            /\ \A a \in AnswersOf(page[s].id) : ~answers'[a].is_accepted]_vars

\* The owner's page shows the error of a failed accept on a question that
\* had an accepted answer before (its flag was set) and has none now.
C13_Witness ==
    \E s \in Sessions :
        /\ Loaded(s)
        /\ page[s].user # NULL
        /\ page[s].user = questions[page[s].id].user_id
        /\ page[s].accept = None
        /\ page[s].toast = "Error accepting answer"
        /\ questions[page[s].id].has_accepted_answer
        /\ AnswersOf(page[s].id) # {}
        /\ Accepted(page[s].id) = {}

\* C14: every remote write that fails ends in an error notification, and no
\* success notification is shown for an operation one of whose writes
\* failed; here for the accept operation, whose second write fails or whose
\* first write has failed when the last one returns.
C14_FailedWriteShowsError ==
    [][\A s \in Sessions :
         /\ (AtStep(s, "set") /\ acceptSet(s, FALSE))
            => page'[s].toast = "Error accepting answer"
         /\ (/\ AtStep(s, "flag")
             /\ Get(page[s].accept).failed
             /\ acceptFlag(s, TRUE))
            => /\ page'[s].toast # "Answer accepted"
               /\ page'[s].toast = "Error accepting answer"]_vars

\* C15: for any visitor, signed in or not and owner of the question or not,
\* mounting the detail page of a question raises the question's stored view
\* count by 1: the update the page starts on mount, returning without error
\* while the stored count is still the one the page fetched, leaves the
\* stored count one higher.
C15_MountRaisesViews ==
    [][\A s \in Sessions : \A v \in page[s].views :
         (/\ v = questions[page[s].id].views + 1
          /\ viewSettle(s, v, TRUE))
         => questions'[page[s].id].views = questions[page[s].id].views + 1]_vars

\* C16: for any signed-in user and any answer, also one the user did not
\* write, a vote that reports success changes the stored vote count by the
\* increment, when the stored count is still the one the page read.
C16_VoteChangesCount ==
    [][\A s \in Sessions :
         (/\ IsSome(page[s].vote)
          /\ Get(page[s].vote).read = answers[Get(page[s].vote).answerId].votes
          /\ voteSettle(s, TRUE))
         => answers'[Get(page[s].vote).answerId].votes
               = answers[Get(page[s].vote).answerId].votes
                 + Get(page[s].vote).increment]_vars

\* C18: after any sequence of account creations, every account that exists
\* has exactly one profile row whose id is the account's id, also when two
\* accounts are created with the same user name.
C18_OneProfilePerAccount ==
    \A u \in auth.users : Cardinality({p \in auth.profiles : p.id = u}) = 1

\* Two accounts exist and the last sign-up, with a user name already taken,
\* was refused.
C18_Witness ==
    /\ Cardinality(auth.users) >= 2
    /\ auth.error = "Database error saving new user"
    /\ \E p \in auth.profiles : p.username = Some("ann")

\* C17: a question or answer row is inserted only with a user reference
\* equal to the user of the inserting signed-in session, and is updated or
\* deleted only by a signed-in session whose user is the row's user
\* reference; a row whose user reference is null is never updated or deleted.
C17_RowsWrittenByOwnerOnly ==
    [][\A uid \in Requesters :
         StoreRequest(uid)
         => /\ \A q \in 1..Len(questions') :
                  IF q > Len(questions)
                  THEN uid # NULL /\ questions'[q].user_id = uid
                  ELSE questions'[q] # questions[q]
                       => uid # NULL /\ questions[q].user_id = uid
            /\ \A a \in 1..Len(answers') :
                  IF a > Len(answers)
                  THEN uid # NULL /\ answers'[a].user_id = uid
                  ELSE answers'[a] # answers[a]
                       => uid # NULL /\ answers[a].user_id = uid]_vars

\* C19: for every store state, every filter and every sort, the listing
\* query returns exactly the questions that match the filter (answered:
\* accepted flag true; unanswered: accepted flag false; all: every question),
\* ordered by creation time descending (newest), creation time ascending
\* (oldest) or vote count descending (most votes).
C19_ListingFilteredAndSorted ==
    [][fetchQuestions
       => LET l == Get(home'.questions)
              n == Len(l)
          IN  /\ \A i, j \in 1..n : l[i] = l[j] => i = j
              /\ {l[i] : i \in 1..n}
                    = {q \in QuestionIds :
                          /\ ~questions[q].deleted
                          /\ home.filterBy = "answered"
                                => questions[q].has_accepted_answer = TRUE
                          /\ home.filterBy = "unanswered"
                                => questions[q].has_accepted_answer = FALSE}
              /\ \A i \in 1..n : \A j \in (i + 1)..n :
                    /\ home.sortBy = "newest" => CreatedAt(l[i]) >= CreatedAt(l[j])
                    /\ home.sortBy = "oldest" => CreatedAt(l[i]) <= CreatedAt(l[j])
                    /\ home.sortBy = "votes"
                          => questions[l[i]].votes >= questions[l[j]].votes]_vars

\* The list shows the answered questions by votes: the seed question with
\* 12 votes before the one with 5, the unanswered one left out.
C19_Witness ==
    /\ home.filterBy = "answered"
    /\ home.sortBy = "votes"
    /\ IsSome(home.questions)
    /\ Len(Get(home.questions)) >= 2
    /\ questions[Get(home.questions)[1]].votes > questions[Get(home.questions)[2]].votes

\* C20: a successful answer submission by a signed-in user with non-blank
\* content adds exactly one answer row, with the page's question id, the
\* session's user, vote count 0 and accepted false, and changes no other row.
C20_SubmitAddsOneAnswer ==
    [][\A s \in Sessions :
         (page[s].submitPending /\ submitAnswerSettle(s, TRUE))
         => /\ Len(answers') = Len(answers) + 1
            /\ answers'[Len(answers')].question_id = page[s].id
            /\ answers'[Len(answers')].user_id = page[s].user
            /\ page[s].user # NULL
            /\ answers'[Len(answers')].votes = 0
            /\ answers'[Len(answers')].is_accepted = FALSE
            /\ ~answers'[Len(answers')].deleted
            /\ \A a \in AnswerIds : answers'[a] = answers[a]
            /\ questions' = questions]_vars

\* The page shows "Answer posted!" and the newest answer of its question is
\* one of the signed-in user.
C20_Witness ==
    \E s \in Sessions :
        /\ page[s].toast = "Answer posted!"
        /\ page[s].newAnswer = <<>>
        /\ ~page[s].submitPending
        /\ Len(answers) >= 1
        /\ answers[Len(answers)].question_id = page[s].id
        /\ answers[Len(answers)].user_id = page[s].user

\* C21: a vote requested without a signed-in user issues no write: the
\* handler shows "Login required" and every answer's vote count is
\* unchanged, on the page backed by the store and on the page that keeps its
\* answers in component state (which has no signed-in user at all).
C21_AnonymousVoteRejected ==
    [][/\ \A s \in Sessions : \A a \in AnswerIds : \A up \in BOOLEAN :
            (page[s].user = NULL /\ handleVote(s, a, up))
            => /\ page'[s].toast = "Login required"
               /\ page'[s].vote = None
               /\ answers' = answers
       /\ \A i \in 1..Len(local.answers) : \A t \in VoteTypes :
            handleVoteLocal(local.answers[i].id, t)
            => /\ local'.toast = "Login required"
               /\ \A j \in 1..Len(local.answers) :
                     local'.answers[j].votes = local.answers[j].votes]_vars

\* C22: successful mutations invalidate and refetch the answers, failed ones
\* do not; so once the mutations and refetches of a page have all completed,
\* with no other session writing, the answers the page shows equal the
\* answers of its question in the store.
C22_SettledPageShowsStore ==
    \A s \in Sessions :
        (Loaded(s) /\ Idle(s) /\ ~page[s].answersStale)
        => Get(page[s].answers) = AnswerList(page[s].id, Len(answers))

\* C23: a question with no answers shows "No answers yet. Be the first to
\* answer!" and an answer count of 0 on its page, and the answer count shown
\* for a question, on its page and on its card of the list, is the number
\* of answers the question has when the data is fetched.
C23_AnswerCountShown ==
    [][/\ \A s \in Sessions :
            fetchAnswers(s)
            => /\ AnswerCountShown(s)' = Cardinality(AnswersOf(page[s].id))
               /\ (AnswersOf(page[s].id) = {})
                  => AnswersMessage(s)' = "No answers yet. Be the first to answer!"
       /\ fetchQuestions
          => \A i \in 1..Len(Get(home'.questions)) :
                ListedAnswerCount(Get(home'.questions)[i])
                = Cardinality(AnswersOf(Get(home'.questions)[i]))]_vars

\* C24: within one accept the three writes are issued in the order clear,
\* set, flag, each only after the one before it has returned, and the flag
\* is written only when the second write reported no error.
C24_AcceptWritesInOrder ==
    [][/\ \A s \in Sessions :
            (IsSome(page'[s].accept) /\ page'[s].accept # page[s].accept)
            => \/ Get(page'[s].accept).step = "clear" /\ page[s].accept = None
               \/ Get(page'[s].accept).step = "set" /\ AtStep(s, "clear")
               \/ /\ Get(page'[s].accept).step = "flag"
                  /\ AtStep(s, "set")
                  /\ answers' = SetUpdate(page[s].user, Get(page[s].accept).answerId)
       /\ (\E a \in AnswerIds : answers[a].is_accepted /\ ~answers'[a].is_accepted)
          => \E s \in Sessions : AtStep(s, "clear")
       /\ (\E a \in AnswerIds : ~answers[a].is_accepted /\ answers'[a].is_accepted)
          => \E s \in Sessions : AtStep(s, "set")
       /\ (\E q \in QuestionIds : /\ ~questions[q].has_accepted_answer
                                  /\ questions'[q].has_accepted_answer)
          => \E s \in Sessions : AtStep(s, "flag")]_vars

\* An accept has issued its three writes and each took effect.
C24_Witness ==
    \E s \in Sessions :
        /\ page[s].toast = "Answer accepted"
        /\ page[s].accept = None
        /\ page[s].id # NULL
        /\ Accepted(page[s].id) # {}
        /\ questions[page[s].id].has_accepted_answer
        /\ questions[page[s].id].user_id = page[s].user

C26_LocalCountFollowsUserVote ==
    [][/\ \A i \in 1..Len(local'.answers) :
            local'.answers[i].votes
            = InitialVotes(local'.answers[i].id)
              + (IF local'.answers[i].userVote = "up" THEN 1
                 ELSE IF local'.answers[i].userVote = "down" THEN -1 ELSE 0)
       /\ \A i \in 1..Len(local.answers) : \A t \in VoteTypes :
            handleVoteLocal(local.answers[i].id, t)
            => /\ local.answers[i].userVote = t
                  => /\ local'.answers[i].userVote = "null"
                     /\ local'.answers[i].votes = InitialVotes(local.answers[i].id)
               /\ \A j \in 1..Len(local.answers) :
                    j # i => local'.answers[j].votes = local.answers[j].votes]_vars

\* One answer stands voted down and another voted up: clicks in both
\* directions have changed counts.
C26_Witness ==
    \E i, j \in 1..Len(local.answers) :
        /\ local.answers[i].userVote = "down"
        /\ local.answers[i].votes = InitialVotes(local.answers[i].id) - 1
        /\ local.answers[j].userVote = "up"
        /\ local.toast = "Vote recorded"

\* C27: accepting is idempotent: a click on Accept for the answer that is
\* already the accepted one leaves that answer accepted (on the page that
\* keeps its answers in component state, which has no failure and no other
\* writer).
C27_AcceptIdempotent ==
    [][\A i \in 1..Len(local.answers) :
          (/\ local.answers[i].isAccepted
           /\ handleAcceptAnswerLocal(local.answers[i].id))
          => local'.answers[i].isAccepted]_vars

\* C28: no operation writes false to a question's accepted flag: a flag
\* that is true stays true, also after an accept sequence that cleared
\* every answer of the question and then failed.
C28_FlagNeverReset ==
    [][\A q \in QuestionIds :
          questions[q].has_accepted_answer => questions'[q].has_accepted_answer]_vars

\* An accept sequence has cleared the accepted answer of a flagged question
\* and failed at its second write: the flag is still true.
C28_Witness ==
    \E s \in Sessions :
        /\ page[s].id # NULL
        /\ page[s].accept = None
        /\ page[s].toast = "Error accepting answer"
        /\ AnswersOf(page[s].id) # {}
        /\ Accepted(page[s].id) = {}
        /\ questions[page[s].id].user_id = page[s].user
        /\ questions[page[s].id].has_accepted_answer

\* C29: in every reachable state of the store every answer row references
\* an existing question: an insert of an answer for a question id that does
\* not exist adds no row, and a delete of a question deletes all of its
\* answers in the same step.
C29_AnswersReferenceQuestions ==
    \A a \in AnswerIds :
        ~answers[a].deleted
        => /\ answers[a].question_id \in QuestionIds
           /\ ~questions[answers[a].question_id].deleted

\* A question that had answers has been deleted and its answers went with
\* it, while an answer of another question is still there.
C29_Witness ==
    \E a, b \in AnswerIds :
        /\ answers[a].deleted
        /\ questions[answers[a].question_id].deleted
        /\ ~answers[b].deleted

\* C30: the answer draft of the detail page is cleared only when an answer
\* insert succeeds: a rejected submission (no session, or empty or
\* whitespace-only content) issues no insert and leaves the draft as it was,
\* and so does a failed insert.
C30_DraftClearedOnSuccessOnly ==
    [][\A s \in Sessions :
          /\ handleSubmitAnswer(s)
             => /\ page'[s].newAnswer = page[s].newAnswer
                /\ SubmitAnswerToast(page[s]) # "" => ~page'[s].submitPending
          /\ submitAnswerSettle(s, FALSE)
             => /\ page'[s].newAnswer = page[s].newAnswer
                /\ answers' = answers
          /\ (page[s].newAnswer # <<>> /\ page'[s].newAnswer = <<>>)
             => \/ submitAnswerSettle(s, TRUE)
                \/ setNewAnswer(s, <<>>)
                \/ page'[s].id # page[s].id]_vars

\* A whitespace-only draft has been rejected and is still in the form.
C30_Witness ==
    \E s \in Sessions :
        /\ page[s].user # NULL
        /\ page[s].toast = "Answer required"
        /\ page[s].newAnswer # <<>>
        /\ trim(page[s].newAnswer) = <<>>
        /\ ~page[s].submitPending

====
